---- MODULE Spec2Model ----
(***************************************************************************)
(* A model of generate_ip_csv.py: the aggregation of IP-to-country data    *)
(* from several sources into one CSV of CIDR networks.                     *)
(*                                                                         *)
(* Text is modelled as a sequence of integer tokens: a numeral is the     *)
(* token of its value, and the separators ".", "/" and ":" are the tokens *)
(* DOT, SLASH and COLON.  "10.0.0.5/32" is                                 *)
(* <<10, DOT, 0, DOT, 0, DOT, 5, SLASH, 32>> and "::5" is                  *)
(* <<COLON, COLON, 5>>.  A DataFrame is the sequence of its rows, a row a  *)
(* record of its columns.                                                  *)
(***************************************************************************)
EXTENDS Integers, Sequences, FiniteSets, TLC

VARIABLES
    \* main(): position, loop index and the frames it builds
    pc, geo_idx, aggregated_ipv4_df, aggregated_ipv6_df,
    \* main(): the file system it touches and how the process ended
    data_dir, export_dir, output_file, exit_code, error,
    \* main(): what has been observed of the run (history)
    last_read, sources_done, raw_ipv4, raw_ipv6,
    \* a single function applied to an input: its argument and its results
    stage, arg, ret, ret2

main_vars == <<pc, geo_idx, aggregated_ipv4_df, aggregated_ipv6_df, data_dir,
               export_dir, output_file, exit_code, error, last_read,
               sources_done, raw_ipv4, raw_ipv6>>
fn_vars == <<stage, arg, ret, ret2>>
vars == <<main_vars, fn_vars>>

----------------------------------------------------------------------------
(* Bounds of the model *)

\* ranges are drawn from RangeBase .. RangeBase + MaxAddr
MaxAddr == 11
\* rows of a range table handed to convert_iprange_to_cidr
MaxRangeRows == 1
\* rows of a frame handed to expand_df
MaxExpandRows == 3
\* rows of a block table handed to extract_geolite2_cidr
MaxBlockRows == 2
\* rows of a file main reads
MaxFileRows == 1
\* rows main holds in its two frames together
MaxAggRows == 3

----------------------------------------------------------------------------
(* Text *)

DOT == -1
SLASH == -2
COLON == -3

Min(a, b) == IF a <= b THEN a ELSE b

\* a successful return, and an exception that leaves the function
Ok(v) == [error |-> "", value |-> v]
Raise(e) == [error |-> e, value |-> <<>>]

\* `tok in s`
Contains(s, tok) == \E i \in 1..Len(s) : s[i] = tok

\* s.split(sep): always at least one part
RECURSIVE Split(_, _)
Split(s, sep) ==
    IF ~Contains(s, sep) THEN <<s>>
    ELSE LET i == CHOOSE k \in 1..Len(s) :
                      s[k] = sep /\ \A j \in 1..(k - 1) : s[j] # sep
         IN  <<SubSeq(s, 1, i - 1)>> \o Split(SubSeq(s, i + 1, Len(s)), sep)

\* sep.join(parts)
RECURSIVE Join(_, _)
Join(parts, sep) ==
    IF Len(parts) = 0 THEN <<>>
    ELSE IF Len(parts) = 1 THEN parts[1]
    ELSE parts[1] \o <<sep>> \o Join(Tail(parts), sep)

\* int(s) of a text that is one numeral
IsNumeral(s) == Len(s) = 1 /\ s[1] >= 0
IntOf(s) == s[1]
\* str(n)
StrOf(n) == <<n>>

----------------------------------------------------------------------------
(* The ipaddress library, as generate_ip_csv.py uses it *)

IPV4LENGTH == 32
IPV6LENGTH == 128

max_prefixlen(ipv6) == IF ipv6 THEN IPV6LENGTH ELSE IPV4LENGTH

\* ipaddress.IPv4Address(text): four decimal octets
IsIPv4Text(t) ==
    LET parts == Split(t, DOT)
    IN  /\ Len(parts) = 4
        /\ \A i \in 1..4 : IsNumeral(parts[i]) /\ IntOf(parts[i]) <= 255
IPv4Int(t) ==
    LET o == Split(t, DOT)
    IN  ((IntOf(o[1]) * 256 + IntOf(o[2])) * 256 + IntOf(o[3])) * 256 + IntOf(o[4])

\* ipaddress.IPv6Address(text), for the compressed texts "::" and "::n"
IsIPv6Text(t) ==
    /\ Len(t) \in {2, 3}
    /\ t[1] = COLON /\ t[2] = COLON
    /\ Len(t) = 3 => t[3] > 0
IPv6Int(t) == IF Len(t) = 2 THEN 0 ELSE t[3]

IsAddressText(t, ipv6) == IF ipv6 THEN IsIPv6Text(t) ELSE IsIPv4Text(t)
AddressInt(t, ipv6) == IF ipv6 THEN IPv6Int(t) ELSE IPv4Int(t)

\* str(address)
IPv4Str(n) ==
    <<n \div 16777216, DOT, (n \div 65536) % 256, DOT, (n \div 256) % 256, DOT,
      n % 256>>
IPv6Str(n) == IF n = 0 THEN <<COLON, COLON>> ELSE <<COLON, COLON, n>>
AddressStr(n, ipv6) == IF ipv6 THEN IPv6Str(n) ELSE IPv4Str(n)

\* str(network): "address/prefixlen"
NetworkStr(net, ipv6) ==
    AddressStr(net.addr, ipv6) \o <<SLASH>> \o StrOf(net.prefixlen)

\* int.bit_length()
RECURSIVE bit_length(_)
bit_length(n) == IF n = 0 THEN 0 ELSE 1 + bit_length(n \div 2)

\* ipaddress._count_righthand_zero_bits(number, bits)
RECURSIVE TrailingZeros(_)
TrailingZeros(n) == IF n % 2 = 1 THEN 0 ELSE 1 + TrailingZeros(n \div 2)
count_righthand_zero_bits(number, bits) ==
    IF number = 0 THEN bits ELSE Min(bits, TrailingZeros(number))

\* n == ip._ALL_ONES, the address of `bits` one bits
RECURSIVE IsAllOnes(_, _)
IsAllOnes(n, bits) ==
    IF bits = 0 THEN n = 0 ELSE n % 2 = 1 /\ IsAllOnes(n \div 2, bits - 1)

\* the block the loop of summarize_address_range emits at first_int
NextBlockBits(first_int, last_int, ip_bits) ==
    Min(count_righthand_zero_bits(first_int, ip_bits),
        bit_length(last_int - first_int + 1) - 1)

\* ipaddress.summarize_address_range(first, last), first <= last
RECURSIVE summarize_address_range(_, _, _)
summarize_address_range(first_int, last_int, ip_bits) ==
    IF first_int > last_int THEN <<>>
    ELSE LET nbits == NextBlockBits(first_int, last_int, ip_bits)
             net == [addr |-> first_int, prefixlen |-> ip_bits - nbits]
             nxt == first_int + 2 ^ nbits
         IN  <<net>> \o
             (IF IsAllOnes(nxt - 1, ip_bits) THEN <<>>
              ELSE summarize_address_range(nxt, last_int, ip_bits))

----------------------------------------------------------------------------
(* convert_iprange_to_cidr *)

\* ConvertRow with the end of the range taken as exclusive
ConvertRow_exclusive_end(row, ipv6) ==
    IF ~IsAddressText(row.Range_Start, ipv6) \/ ~IsAddressText(row.Range_End, ipv6)
    THEN Raise("AddressValueError")
    ELSE LET startip == AddressInt(row.Range_Start, ipv6)
             endip == AddressInt(row.Range_End, ipv6)
         IN  IF startip > endip THEN Raise("ValueError")
             ELSE LET current_cidr ==
                          summarize_address_range(startip, endip - 1, max_prefixlen(ipv6))
                  IN  Ok([i \in 1..Len(current_cidr) |->
                            [Network |-> NetworkStr(current_cidr[i], ipv6),
                             Country |-> row.Country]])

\* the rows one row of the range table becomes
ConvertRow(row, ipv6) ==
    IF ~IsAddressText(row.Range_Start, ipv6) \/ ~IsAddressText(row.Range_End, ipv6)
    THEN Raise("AddressValueError")
    ELSE LET startip == AddressInt(row.Range_Start, ipv6)
             endip == AddressInt(row.Range_End, ipv6)
         IN  IF startip > endip THEN Raise("ValueError")
             ELSE LET current_cidr ==
                          summarize_address_range(startip, endip, max_prefixlen(ipv6))
                  IN  Ok([i \in 1..Len(current_cidr) |->
                            [Network |-> NetworkStr(current_cidr[i], ipv6),
                             Country |-> row.Country]])

RECURSIVE convert_iprange_to_cidr(_, _)
convert_iprange_to_cidr(df, ipv6) ==
    IF Len(df) = 0 THEN Ok(<<>>)
    ELSE LET head == ConvertRow(Head(df), ipv6)
         IN  IF head.error # "" THEN head
             ELSE LET rest == convert_iprange_to_cidr(Tail(df), ipv6)
                  IN  IF rest.error # "" THEN rest
                      ELSE Ok(head.value \o rest.value)

----------------------------------------------------------------------------
(* Frames of bounded length *)

SeqsUpTo(S, n) == UNION {[1..k -> S] : k \in 0..n}

NoRead == [source |-> "", present |-> FALSE, rows |-> <<>>]
NoFile == [state |-> "absent", rows |-> <<>>]

\* the variables of main() while a single function is examined
MainIdle ==
    /\ pc = "idle" /\ geo_idx = 0
    /\ aggregated_ipv4_df = <<>> /\ aggregated_ipv6_df = <<>>
    /\ data_dir = FALSE /\ export_dir = "absent" /\ output_file = NoFile
    /\ exit_code = -1 /\ error = ""
    /\ last_read = NoRead /\ sources_done = {}
    /\ raw_ipv4 = <<>> /\ raw_ipv6 = <<>>

----------------------------------------------------------------------------
(* convert_iprange_to_cidr applied to a range table *)

\* 1.0.0.248: the ranges drawn cross the octet boundary at 1.0.1.0
RangeBase == 16777464

RangeAddrs == {RangeBase + k : k \in 0..MaxAddr}
RangeCountries == {"IR", "CN"}
RangeRows(ipv6) ==
    [Range_Start : {AddressStr(n, ipv6) : n \in RangeAddrs},
     Range_End : {AddressStr(n, ipv6) : n \in RangeAddrs},
     Country : RangeCountries]

RangeInit ==
    /\ MainIdle
    /\ stage = "input"
    /\ \E ipv6 \in BOOLEAN :
         \E df \in SeqsUpTo(RangeRows(ipv6), MaxRangeRows) :
            arg = [df |-> df, ipv6 |-> ipv6]
    /\ ret = Ok(<<>>) /\ ret2 = Ok(<<>>)

Convert ==
    /\ stage = "input"
    /\ ret' = convert_iprange_to_cidr(arg.df, arg.ipv6)
    /\ stage' = "returned"
    /\ UNCHANGED <<arg, ret2, main_vars>>

RangeNext == Convert
SpecRange == RangeInit /\ [][RangeNext]_vars

----------------------------------------------------------------------------
(* Properties of convert_iprange_to_cidr (SpecRange) *)

\* ipaddress.ip_network(text) read back: the address and the prefix length
ParseBlock(rec, ipv6) ==
    LET parts == Split(rec.Network, SLASH)
    IN  [addr |-> AddressInt(parts[1], ipv6), prefixlen |-> IntOf(parts[2]),
         Country |-> rec.Country]
WellFormedBlock(rec, ipv6) ==
    LET parts == Split(rec.Network, SLASH)
    IN  /\ Len(parts) = 2
        /\ IsAddressText(parts[1], ipv6)
        /\ IsNumeral(parts[2])
        /\ IntOf(parts[2]) <= max_prefixlen(ipv6)
        /\ max_prefixlen(ipv6) - IntOf(parts[2]) <= 16

BlockSize(b, ipv6) == 2 ^ (max_prefixlen(ipv6) - b.prefixlen)
BlockLo(b) == b.addr
BlockHi(b, ipv6) == b.addr + BlockSize(b, ipv6) - 1

\* the blocks cover [lo, hi] exactly, in order, without overlap, each the largest
\* aligned block that fits where it starts
RowTiled(blocks, lo, hi, country, ipv6) ==
    /\ Len(blocks) >= 1
    /\ BlockLo(blocks[1]) = lo
    /\ BlockHi(blocks[Len(blocks)], ipv6) = hi
    /\ \A j \in 1..(Len(blocks) - 1) :
          BlockLo(blocks[j + 1]) = BlockHi(blocks[j], ipv6) + 1
    /\ \A j \in 1..Len(blocks) :
          /\ blocks[j].Country = country
          /\ BlockLo(blocks[j]) % BlockSize(blocks[j], ipv6) = 0
          /\ BlockLo(blocks[j]) >= lo /\ BlockHi(blocks[j], ipv6) <= hi
          /\ \/ blocks[j].prefixlen = 0
             \/ BlockLo(blocks[j]) % (2 * BlockSize(blocks[j], ipv6)) # 0
             \/ BlockLo(blocks[j]) + 2 * BlockSize(blocks[j], ipv6) - 1 > hi
    /\ \A a \in lo..hi :
          Cardinality({j \in 1..Len(blocks) :
                          BlockLo(blocks[j]) <= a /\ a <= BlockHi(blocks[j], ipv6)}) = 1
    /\ \A i, j \in 1..Len(blocks) :
          i < j => BlockHi(blocks[i], ipv6) < BlockLo(blocks[j])
    /\ lo = hi => Len(blocks) = 1 /\ blocks[1].prefixlen = max_prefixlen(ipv6)

\* the output is, row after row, the blocks of that row's range
RECURSIVE RowsTiled(_, _, _)
RowsTiled(blocks, rows, ipv6) ==
    IF Len(rows) = 0 THEN Len(blocks) = 0
    ELSE LET lo == AddressInt(rows[1].Range_Start, ipv6)
             hi == AddressInt(rows[1].Range_End, ipv6)
             ks == {k \in 1..Len(blocks) : BlockHi(blocks[k], ipv6) >= hi}
         IN  /\ ks # {}
             /\ LET k == CHOOSE m \in ks : \A n \in ks : m <= n
                IN  /\ RowTiled(SubSeq(blocks, 1, k), lo, hi, rows[1].Country, ipv6)
                    /\ RowsTiled(SubSeq(blocks, k + 1, Len(blocks)), Tail(rows), ipv6)

ValidRangeRow(row, ipv6) ==
    /\ IsAddressText(row.Range_Start, ipv6) /\ IsAddressText(row.Range_End, ipv6)
    /\ AddressInt(row.Range_Start, ipv6) <= AddressInt(row.Range_End, ipv6)

\* C1: for rows of same-family addresses with start <= end, the blocks emitted
\* for each row cover exactly the inclusive range [start, end]: every address
\* of the range is in exactly one block, no block reaches outside the range,
\* the blocks do not overlap, each block is the largest aligned block that fits
\* at its lower bound, and a range with start = end yields one /32 (or /128).
C1_ExactMinimalCover ==
    (stage = "returned" /\ \A i \in 1..Len(arg.df) : ValidRangeRow(arg.df[i], arg.ipv6))
    => /\ ret.error = ""
       /\ \A i \in 1..Len(ret.value) : WellFormedBlock(ret.value[i], arg.ipv6)
       /\ RowsTiled([i \in 1..Len(ret.value) |-> ParseBlock(ret.value[i], arg.ipv6)],
                    arg.df, arg.ipv6)

\* a range that needs blocks of several sizes and crosses an octet boundary
C1_Witness ==
    /\ stage = "returned" /\ ret.error = ""
    /\ Len(arg.df) >= 1 /\ ValidRangeRow(arg.df[1], arg.ipv6)
    /\ ~arg.ipv6
    /\ Split(arg.df[1].Range_Start, DOT)[3] # Split(arg.df[1].Range_End, DOT)[3]
    /\ Len(ret.value) >= 4
    /\ \E i, j \in 1..Len(ret.value) :
          ParseBlock(ret.value[i], arg.ipv6).prefixlen
             # ParseBlock(ret.value[j], arg.ipv6).prefixlen

----------------------------------------------------------------------------
(* pandas, as generate_ip_csv.py uses it *)

\* pd.concat([dst_df, src_df], ignore_index=True)
concat_df(dst_df, src_df) == dst_df \o src_df

\* the rows of df at the indices in S, in their order
RECURSIVE TakeRows(_, _, _)
TakeRows(df, keep, i) ==
    IF i > Len(df) THEN <<>>
    ELSE (IF i \in keep THEN <<df[i]>> ELSE <<>>) \o TakeRows(df, keep, i + 1)

\* df.drop_duplicates(): of rows equal in every column the first is kept
drop_duplicates(df) ==
    TakeRows(df, {i \in 1..Len(df) : \A j \in 1..(i - 1) : df[j] # df[i]}, 1)

\* drop_duplicates(subset=["IP"], keep="last")
drop_duplicates_IP_keep_last(df) ==
    TakeRows(df, {i \in 1..Len(df) : \A j \in (i + 1)..Len(df) : df[j].IP # df[i].IP}, 1)

\* df.drop_duplicates(subset=["IP"]): the first row of each IP is kept
drop_duplicates_IP(df) ==
    TakeRows(df, {i \in 1..Len(df) : \A j \in 1..(i - 1) : df[j].IP # df[i].IP}, 1)

\* The orders of the indices in S that are ascending in keys.  sort_values
\* sorts with kind="quicksort", which is not stable: rows with equal keys may
\* come out in any order.
RECURSIVE SortedOrders(_, _)
SortedOrders(S, keys) ==
    IF S = {} THEN {<<>>}
    ELSE UNION {{<<i>> \o t : t \in SortedOrders(S \ {i}, keys)} :
                   i \in {m \in S : \A n \in S : keys[m] <= keys[n]}}

\* sort_values(column, ascending=False)
sort_values_descending(df, keys) ==
    {[k \in 1..Len(df) |-> df[o[k]]] :
        o \in SortedOrders(1..Len(df), [i \in 1..Len(df) |-> 0 - keys[i]])}

\* df.sort_values(column), keys the column's values: every possible result
sort_values(df, keys) ==
    {[k \in 1..Len(df) |-> df[o[k]]] : o \in SortedOrders(1..Len(df), keys)}

\* the order of the country codes as strings
CountryRank(c) ==
    CASE c = "CN" -> 1 [] c = "IR" -> 2 [] c = "RU" -> 3 [] OTHER -> 4

----------------------------------------------------------------------------
(* expand_df *)

\* one row split at "/": IndexError without a "/", ValueError when what
\* follows it is no number
SplitRow(row) ==
    LET ip_arr == Split(row.Network, SLASH)
    IN  IF Len(ip_arr) < 2 THEN Raise("IndexError")
        ELSE IF ~IsNumeral(ip_arr[2]) THEN Raise("ValueError")
        ELSE Ok([IP |-> ip_arr[1], Subnet |-> IntOf(ip_arr[2]),
                 Country |-> row.Country])

\* Generalize without octets_arr[3] = "0"
Generalize_keep_octet(item) ==
    IF Contains(item.IP, DOT) /\ item.Subnet = 32
    THEN Ok([IP |-> item.IP, Subnet |-> 24, Country |-> item.Country])
    ELSE Ok(item)

\* a single IPv4 address becomes the /24 it lies in
Generalize(item) ==
    IF Contains(item.IP, DOT) /\ item.Subnet = 32
    THEN LET octets_arr == Split(item.IP, DOT)
         IN  IF Len(octets_arr) < 4 THEN Raise("IndexError")
             ELSE Ok([IP |-> Join([octets_arr EXCEPT ![4] = StrOf(0)], DOT),
                      Subnet |-> 24, Country |-> item.Country])
    ELSE Ok(item)

\* split_list: every row split, in order
RECURSIVE split_list(_)
split_list(df) ==
    IF Len(df) = 0 THEN Ok(<<>>)
    ELSE LET item == SplitRow(Head(df))
         IN  IF item.error # "" THEN item
             ELSE LET rest == split_list(Tail(df))
                  IN  IF rest.error # "" THEN rest
                      ELSE Ok(<<item.value>> \o rest.value)

\* extensive_list: every item generalized, in order
RECURSIVE extensive_list(_)
extensive_list(items) ==
    IF Len(items) = 0 THEN Ok(<<>>)
    ELSE LET wide == Generalize(Head(items))
         IN  IF wide.error # "" THEN wide
             ELSE LET rest == extensive_list(Tail(items))
                  IN  IF rest.error # "" THEN rest
                      ELSE Ok(<<wide.value>> \o rest.value)

\* Reassemble without the "/" between the address and the prefix length
Reassemble_no_separator(item) ==
    [Network |-> item.IP \o StrOf(item.Subnet), Country |-> item.Country]

\* f"{row[0]}/{row[1]}" and the country
Reassemble(item) ==
    [Network |-> item.IP \o <<SLASH>> \o StrOf(item.Subnet), Country |-> item.Country]

\* every frame expand_df(df) may return, or the exception that leaves it
expand_df(df) ==
    LET split == split_list(df)
        wide == IF split.error # "" THEN split ELSE extensive_list(split.value)
    IN  IF wide.error # "" THEN {wide}
        \* a frame without rows has no column "Subnet" to sort by
        ELSE IF Len(wide.value) = 0 THEN {Raise("KeyError")}
        ELSE LET list == wide.value
                 sorted == sort_values(list, [i \in 1..Len(list) |-> list[i].Subnet])
                 results ==
                     {[i \in 1..Len(tmp_df) |-> Reassemble(tmp_df[i])] :
                         tmp_df \in {drop_duplicates_IP(t) : t \in sorted}}
             IN  {Ok(result_df) :
                     result_df \in UNION {
                         sort_values(r, [i \in 1..Len(r) |-> CountryRank(r[i].Country)]) :
                             r \in results}}

----------------------------------------------------------------------------
(* expand_df applied to a frame of networks, and then to its own result *)

Net4(a, b, c, d, p) == <<a, DOT, b, DOT, c, DOT, d, SLASH, p>>

ExpandRows ==
    {[Network |-> Net4(10, 0, 0, 5, 32), Country |-> "IR"],
     [Network |-> Net4(10, 0, 0, 9, 32), Country |-> "CN"],
     [Network |-> Net4(10, 0, 0, 0, 24), Country |-> "CN"],
     [Network |-> Net4(10, 0, 0, 0, 24), Country |-> "IR"],
     [Network |-> Net4(10, 0, 0, 0, 28), Country |-> "IR"],
     [Network |-> Net4(10, 0, 0, 0, 16), Country |-> "RU"],
     [Network |-> Net4(10, 0, 0, 128, 25), Country |-> "IR"],
     [Network |-> Net4(10, 0, 1, 77, 32), Country |-> "RU"],
     \* "::7/32": no IPv4 address
     [Network |-> <<COLON, COLON, 7, SLASH, 32>>, Country |-> "CN"],
     \* "10.0.0.7": no "/"
     [Network |-> <<10, DOT, 0, DOT, 0, DOT, 7>>, Country |-> "IR"]}

ExpandInit ==
    /\ MainIdle
    /\ stage = "input"
    /\ arg \in SeqsUpTo(ExpandRows, MaxExpandRows)
    /\ ret = Ok(<<>>) /\ ret2 = Ok(<<>>)

Expand ==
    /\ stage = "input"
    /\ ret' \in expand_df(arg)
    /\ stage' = "expanded"
    /\ UNCHANGED <<arg, ret2, main_vars>>

ExpandAgain ==
    /\ stage = "expanded" /\ ret.error = ""
    /\ ret2' \in expand_df(ret.value)
    /\ stage' = "expanded_twice"
    /\ UNCHANGED <<arg, ret, main_vars>>

ExpandNext == Expand \/ ExpandAgain
SpecExpand == ExpandInit /\ [][ExpandNext]_vars

----------------------------------------------------------------------------
(* Properties of expand_df (SpecExpand) *)

\* a well-formed IPv4 "address/prefix" network
IsIPv4Net(rec) ==
    LET parts == Split(rec.Network, SLASH)
    IN  /\ Len(parts) = 2
        /\ IsIPv4Text(parts[1])
        /\ IsNumeral(parts[2]) /\ IntOf(parts[2]) <= IPV4LENGTH
AllIPv4(df) == \A i \in 1..Len(df) : IsIPv4Net(df[i])

Base(rec) == Split(rec.Network, SLASH)[1]
Prefix(rec) == IntOf(Split(rec.Network, SLASH)[2])

\* the base address and prefix length a record has after the /32-to-/24 rule,
\* computed on the address as a number
GenBase(rec) ==
    IF Prefix(rec) = 32
    THEN IPv4Str(IPv4Int(Base(rec)) - (IPv4Int(Base(rec)) % 256))
    ELSE Base(rec)
GenPrefix(rec) == IF Prefix(rec) = 32 THEN 24 ELSE Prefix(rec)

Expanded == stage \in {"expanded", "expanded_twice"} /\ ret.error = "" /\ AllIPv4(arg)

\* C2: expand_df is idempotent on IPv4 record sets: applied to its own output
\* it returns, without error, the same records: no network is rewritten, no
\* record dropped, no country changed.
C2_Idempotent ==
    (stage = "expanded_twice" /\ AllIPv4(arg))
    => /\ ret2.error = ""
       /\ Len(ret2.value) = Len(ret.value)
       /\ {ret2.value[i] : i \in 1..Len(ret2.value)}
             = {ret.value[i] : i \in 1..Len(ret.value)}

\* the first application generalized a /32 and dropped a record
C2_Witness ==
    /\ stage = "expanded_twice" /\ AllIPv4(arg) /\ ret2.error = ""
    /\ \E i \in 1..Len(arg) : Prefix(arg[i]) = 32
    /\ Len(ret.value) >= 2 /\ Len(ret.value) < Len(arg)

\* C3: the output holds at most one record per base address, one for every
\* base address of the generalized input, and its prefix length is the least
\* of the prefix lengths (after generalization) of the input records with that
\* base address.
C3_LeastSpecificWins ==
    Expanded
    => /\ \A i, j \in 1..Len(ret.value) :
             i # j => Base(ret.value[i]) # Base(ret.value[j])
       /\ \A k \in 1..Len(arg) :
             \E i \in 1..Len(ret.value) : Base(ret.value[i]) = GenBase(arg[k])
       /\ \A i \in 1..Len(ret.value) :
             /\ \E k \in 1..Len(arg) :
                   /\ GenBase(arg[k]) = Base(ret.value[i])
                   /\ GenPrefix(arg[k]) = Prefix(ret.value[i])
             /\ \A k \in 1..Len(arg) :
                   GenBase(arg[k]) = Base(ret.value[i])
                   => Prefix(ret.value[i]) <= GenPrefix(arg[k])

\* 10.0.0.0/24 and 10.0.0.0/28 collapse to 10.0.0.0/24
C3_Witness ==
    /\ stage = "expanded" /\ ret.error = "" /\ AllIPv4(arg)
    /\ \E k, m \in 1..Len(arg) :
          /\ Base(arg[k]) = Base(arg[m])
          /\ Prefix(arg[k]) = 24 /\ Prefix(arg[m]) = 28
          /\ \E i \in 1..Len(ret.value) : ret.value[i].Network = arg[k].Network
          /\ \A i \in 1..Len(ret.value) : ret.value[i].Network # arg[m].Network

\* C4: every input a.b.c.d/32 is rewritten to a.b.c.0/24 with its country,
\* every other record keeps its address and prefix length; so no output record
\* has prefix length 32, and every output record is an input record that is no
\* /32, or the /24 of an input /32, with that record's country.
C4_HostsGeneralized ==
    Expanded
    => /\ \A i \in 1..Len(ret.value) : Prefix(ret.value[i]) # 32
       /\ \A i \in 1..Len(ret.value) :
             \E k \in 1..Len(arg) :
                /\ arg[k].Country = ret.value[i].Country
                /\ IF Prefix(arg[k]) = 32
                   THEN LET o == Split(Base(arg[k]), DOT)
                        IN  ret.value[i].Network
                               = Net4(IntOf(o[1]), IntOf(o[2]), IntOf(o[3]), 0, 24)
                   ELSE ret.value[i].Network = arg[k].Network
       /\ \A k \in 1..Len(arg) :
             \E i \in 1..Len(ret.value) :
                /\ Base(ret.value[i]) = GenBase(arg[k])
                /\ Prefix(ret.value[i]) <= GenPrefix(arg[k])

\* a /32 with a nonzero fourth octet came out as its /24
C4_Witness ==
    /\ stage = "expanded" /\ ret.error = "" /\ AllIPv4(arg)
    /\ \E k \in 1..Len(arg) :
          /\ Prefix(arg[k]) = 32
          /\ IntOf(Split(Base(arg[k]), DOT)[4]) # 0
          /\ \E i \in 1..Len(ret.value) :
                /\ Base(ret.value[i]) = GenBase(arg[k])
                /\ Prefix(ret.value[i]) = 24
                /\ ret.value[i].Country = arg[k].Country

\* the addresses of a network, as numbers
NetSize(rec) == 2 ^ (IPV4LENGTH - Prefix(rec))
NetLo(rec) == IPv4Int(Base(rec)) - (IPv4Int(Base(rec)) % NetSize(rec))
NetHi(rec) == NetLo(rec) + NetSize(rec) - 1
Canonical(rec) == IPv4Int(Base(rec)) % NetSize(rec) = 0
Covers(df, a) == \E i \in 1..Len(df) : NetLo(df[i]) <= a /\ a <= NetHi(df[i])

\* Where coverage can end: a covered address whose predecessor is not covered
\* is the first address of a network, and an uncovered address whose
\* predecessor is covered follows the last address of a network.  If some
\* address of an input network is not covered by the output, so is the first
\* such address, and that is one of these.
CriticalAddrs(in, out) ==
    {NetLo(in[k]) : k \in 1..Len(in)} \cup {NetHi(out[i]) + 1 : i \in 1..Len(out)}

\* C10: expand_df never shrinks coverage: for canonical IPv4 input, every
\* address covered by an input record is covered by an output record.
C10_CoverageKept ==
    (Expanded /\ \A k \in 1..Len(arg) : Canonical(arg[k]))
    => \A a \in CriticalAddrs(arg, ret.value) :
          Covers(arg, a) => Covers(ret.value, a)

\* a /32 and a more specific duplicate were both absorbed
C10_Witness ==
    /\ stage = "expanded" /\ ret.error = "" /\ AllIPv4(arg)
    /\ \A k \in 1..Len(arg) : Canonical(arg[k])
    /\ \E k \in 1..Len(arg) :
          Prefix(arg[k]) = 32 /\ \A i \in 1..Len(ret.value) : Base(ret.value[i]) # Base(arg[k])
    /\ \E k \in 1..Len(arg) :
          Prefix(arg[k]) = 28 /\ \A i \in 1..Len(ret.value) : ret.value[i].Network # arg[k].Network

----------------------------------------------------------------------------
(* The source adapters *)

\* a file of the data directory: whether it is there, whether it has the
\* columns its reader asks for, and its rows
MissingFile == [present |-> FALSE, format_ok |-> TRUE, rows |-> <<>>]
BadFile == [present |-> TRUE, format_ok |-> FALSE, rows |-> <<>>]
CsvFile(rows) == [present |-> TRUE, format_ok |-> TRUE, rows |-> rows]

\* load_dbip_csv: the rows of the country, split by address family
load_dbip_csv(file, country_iso_code) ==
    IF ~file.present THEN Raise("FileNotFoundError")
    ELSE LET df == SelectSeq(file.rows, LAMBDA r : r.Country = country_iso_code)
         IN  Ok([df_ip4 |-> SelectSeq(df, LAMBDA r : ~Contains(r.Range_Start, COLON)),
                 df_ip6 |-> SelectSeq(df, LAMBDA r : Contains(r.Range_Start, COLON))])

\* extract_geo_id: the geoname_id of the first row of the country
extract_geo_id(geolite2_countries_file, country) ==
    IF ~geolite2_countries_file.present THEN Raise("FileNotFoundError")
    ELSE IF ~geolite2_countries_file.format_ok THEN Raise("KeyError")
    ELSE LET geoid == SelectSeq(geolite2_countries_file.rows,
                                LAMBDA r : r.country_name = country)
         IN  IF Len(geoid) = 0 THEN Raise("IndexError")
             ELSE Ok(geoid[1].geoname_id)

\* extract_geolite2_cidr keeping a row when either identifier matches
extract_geolite2_cidr_either(geolite2_ipblocks_csv, geoid, iso_code) ==
    IF ~geolite2_ipblocks_csv.present THEN Raise("FileNotFoundError")
    ELSE IF ~geolite2_ipblocks_csv.format_ok THEN Raise("KeyError")
    ELSE LET extracted_df ==
                 SelectSeq(geolite2_ipblocks_csv.rows,
                           LAMBDA r : \/ r.geoname_id = geoid
                                      \/ r.registered_country_geoname_id = geoid)
         IN  Ok([i \in 1..Len(extracted_df) |->
                    [Network |-> extracted_df[i].network, Country |-> iso_code]])

\* extract_geolite2_cidr: the rows whose geoname_id and
\* registered_country_geoname_id are both geoid, as (Network, Country)
extract_geolite2_cidr(geolite2_ipblocks_csv, geoid, iso_code) ==
    IF ~geolite2_ipblocks_csv.present THEN Raise("FileNotFoundError")
    ELSE IF ~geolite2_ipblocks_csv.format_ok THEN Raise("KeyError")
    ELSE LET extracted_df ==
                 SelectSeq(geolite2_ipblocks_csv.rows,
                           LAMBDA r : /\ r.geoname_id = geoid
                                      /\ r.registered_country_geoname_id = geoid)
         IN  Ok([i \in 1..Len(extracted_df) |->
                    [Network |-> extracted_df[i].network, Country |-> iso_code]])

\* load_geolite2_csv: the registry, then the IPv4 blocks, then the IPv6 blocks
load_geolite2_csv(dir, geolocation) ==
    LET geo_id == extract_geo_id(dir.countries, geolocation.name)
    IN  IF geo_id.error # "" THEN geo_id
        ELSE LET ipv4_df == extract_geolite2_cidr(dir.blocks_ipv4, geo_id.value,
                                                  geolocation.iso_code)
                 ipv6_df == extract_geolite2_cidr(dir.blocks_ipv6, geo_id.value,
                                                  geolocation.iso_code)
             IN  IF ipv4_df.error # "" THEN ipv4_df
                 ELSE IF ipv6_df.error # "" THEN ipv6_df
                 ELSE Ok([ipv4_df |-> ipv4_df.value, ipv6_df |-> ipv6_df.value])

\* read_ito_db: the column "IPv4" of the first table, every row of country IR
read_ito_db(xls) ==
    IF ~xls.present THEN Raise("FileNotFoundError")
    ELSE IF ~xls.format_ok THEN Raise("KeyError")
    ELSE Ok([i \in 1..Len(xls.rows) |->
                [Network |-> xls.rows[i].IPv4, Country |-> "IR"]])

----------------------------------------------------------------------------
(* extract_geolite2_cidr applied to a block table *)

\* 0 stands for an empty identifier field
BlockIds == {0, 100, 200}
BlockRows ==
    [network : {Net4(5, 0, 0, 0, 8), Net4(5, 1, 0, 0, 16)},
     geoname_id : BlockIds, registered_country_geoname_id : BlockIds]

GeoInit ==
    /\ MainIdle
    /\ stage = "input"
    /\ \E rows \in SeqsUpTo(BlockRows, MaxBlockRows) :
         \E file \in {MissingFile, BadFile, CsvFile(rows)} :
            \E geoid \in BlockIds \ {0}, iso_code \in {"IR", "CN"} :
               arg = [file |-> file, geoid |-> geoid, iso_code |-> iso_code]
    /\ ret = Ok(<<>>) /\ ret2 = Ok(<<>>)

Extract ==
    /\ stage = "input"
    /\ ret' = extract_geolite2_cidr(arg.file, arg.geoid, arg.iso_code)
    /\ stage' = "extracted"
    /\ UNCHANGED <<arg, ret2, main_vars>>

GeoNext == Extract
SpecGeo == GeoInit /\ [][GeoNext]_vars

\* the indices of the rows whose two identifiers are both the geoid
BothMatch(rows, geoid) ==
    {i \in 1..Len(rows) : /\ rows[i].geoname_id = geoid
                          /\ rows[i].registered_country_geoname_id = geoid}

\* C5: a block row is retained if and only if its geoname_id and its
\* registered_country_geoname_id both equal the country's identifier; the
\* retained rows come out in order, network unchanged, Country the ISO code.
C5_BothIdsMatch ==
    (stage = "extracted" /\ arg.file.present /\ arg.file.format_ok)
    => LET rows == arg.file.rows
           kept == BothMatch(rows, arg.geoid)
       IN  /\ ret.error = ""
           /\ Len(ret.value) = Cardinality(kept)
           /\ \A i \in kept :
                 ret.value[Cardinality({j \in kept : j <= i})]
                    = [Network |-> rows[i].network, Country |-> arg.iso_code]

\* a row of the country registered to another country was left out, another kept
C5_Witness ==
    /\ stage = "extracted" /\ arg.file.present /\ arg.file.format_ok
    /\ arg.geoid = 100
    /\ \E i \in 1..Len(arg.file.rows) :
          /\ arg.file.rows[i].geoname_id = 100
          /\ arg.file.rows[i].registered_country_geoname_id = 200
          /\ \A n \in 1..Len(ret.value) : ret.value[n].Network # arg.file.rows[i].network
    /\ Len(ret.value) = 1

----------------------------------------------------------------------------
(* main *)

geolocations ==
    <<[name |-> "Iran", iso_code |-> "IR"],
      [name |-> "China", iso_code |-> "CN"],
      [name |-> "Russia", iso_code |-> "RU"]>>

geolocation == geolocations[geo_idx]

\* what the data directory may hold when a step reads it

TablesOf(rows) == {CsvFile(t) : t \in SeqsUpTo(rows, MaxFileRows)}

\* dbip-country-lite: 1.0.0.0-1.0.0.3, ::8-::8 and the reversed 1.0.0.3-1.0.0.0
\* for the country, and a range of another country
DbipRows(iso_code) ==
    {[Range_Start |-> IPv4Str(16777216), Range_End |-> IPv4Str(16777219),
      Country |-> iso_code],
     [Range_Start |-> IPv6Str(8), Range_End |-> IPv6Str(8), Country |-> iso_code],
     [Range_Start |-> IPv4Str(16777219), Range_End |-> IPv4Str(16777216),
      Country |-> iso_code],
     [Range_Start |-> IPv4Str(16777216), Range_End |-> IPv4Str(16777219),
      Country |-> "US"]}
DbipFiles(iso_code) == {MissingFile} \cup TablesOf(DbipRows(iso_code))

GeoBlocks4 ==
    {MissingFile, BadFile} \cup
    TablesOf({[network |-> Net4(5, 0, 0, 0, 8), geoname_id |-> 100,
               registered_country_geoname_id |-> 100],
              [network |-> Net4(5, 1, 0, 0, 16), geoname_id |-> 100,
               registered_country_geoname_id |-> 200]})
GeoBlocks6 ==
    {MissingFile} \cup
    TablesOf({[network |-> <<COLON, COLON, SLASH, 96>>, geoname_id |-> 100,
               registered_country_geoname_id |-> 100]})
\* the block tables matter only when the registry names the country
GeoDirs(name) ==
    {[countries |-> c, blocks_ipv4 |-> MissingFile, blocks_ipv6 |-> MissingFile] :
        c \in {MissingFile, CsvFile(<<>>)}}
    \cup [countries : {CsvFile(<<[country_name |-> name, geoname_id |-> 100]>>)},
          blocks_ipv4 : GeoBlocks4, blocks_ipv6 : GeoBlocks6]

\* the per-country CSVs of the autonomous systems and of the manual entries:
\* 10.0.0.5/32 and "10.0.0.7" without a prefix; ::9/64
OptionalFiles4(iso_code) ==
    {MissingFile} \cup
    TablesOf({[Network |-> n, Country |-> iso_code] :
                 n \in {Net4(10, 0, 0, 5, 32), <<10, DOT, 0, DOT, 0, DOT, 7>>}})
OptionalFiles6(iso_code) ==
    {MissingFile} \cup
    TablesOf({[Network |-> <<COLON, COLON, 9, SLASH, 64>>, Country |-> iso_code]})

\* the ITO export: 1.0.0.0/30
ItoFiles ==
    {MissingFile, BadFile} \cup TablesOf({[IPv4 |-> Net4(1, 0, 0, 0, 30)]})

OldFile == [state |-> "old", rows |-> <<>>]

Init ==
    /\ pc = "start" /\ geo_idx = 0
    /\ aggregated_ipv4_df = <<>> /\ aggregated_ipv6_df = <<>>
    /\ data_dir \in BOOLEAN
    /\ \/ export_dir = "absent" /\ output_file = NoFile
       \/ export_dir = "present" /\ output_file = OldFile
    /\ exit_code = -1 /\ error = ""
    /\ last_read = NoRead /\ sources_done = {}
    /\ raw_ipv4 = <<>> /\ raw_ipv6 = <<>>
    /\ stage = "idle" /\ arg = <<>> /\ ret = Ok(<<>>) /\ ret2 = Ok(<<>>)

\* the frames stay within the bound of the model
Fits(ipv4_df, ipv6_df) == Len(ipv4_df) + Len(ipv6_df) <= MaxAggRows

\* an exception nothing catches: the traceback, and exit status 1
Abort(e) ==
    /\ pc' = "aborted" /\ error' = e /\ exit_code' = 1
    /\ UNCHANGED <<geo_idx, aggregated_ipv4_df, aggregated_ipv6_df, data_dir,
                   export_dir, output_file, sources_done, raw_ipv4, raw_ipv6>>

\* the step after the last source of a country
NextCountry ==
    IF geo_idx < Len(geolocations)
    THEN pc' = "dbip" /\ geo_idx' = geo_idx + 1
    ELSE pc' = "cleanup" /\ geo_idx' = geo_idx

Done(source) == sources_done' = sources_done \cup {<<geolocation.iso_code, source>>}

Read(source, file) ==
    last_read' = [source |-> source, present |-> file.present, rows |-> <<>>]

\* if os.path.exists(data_dir_path): the loop over the countries starts
EnterLoop ==
    /\ pc = "start" /\ data_dir
    /\ pc' = "dbip" /\ geo_idx' = 1
    /\ UNCHANGED <<aggregated_ipv4_df, aggregated_ipv6_df, data_dir, export_dir,
                   output_file, exit_code, error, last_read, sources_done,
                   raw_ipv4, raw_ipv6, fn_vars>>

\* else: print(...), exit(0)
NoDataDir ==
    /\ pc = "start" /\ ~data_dir
    /\ pc' = "exited" /\ exit_code' = 0
    /\ UNCHANGED <<geo_idx, aggregated_ipv4_df, aggregated_ipv6_df, data_dir,
                   export_dir, output_file, error, last_read, sources_done,
                   raw_ipv4, raw_ipv6, fn_vars>>

\* the DBIP table: the ranges of the country, converted family by family
LoadDbip ==
    /\ pc = "dbip"
    /\ \E file \in DbipFiles(geolocation.iso_code) :
         LET loaded == load_dbip_csv(file, geolocation.iso_code)
             dbip_ipv4 == convert_iprange_to_cidr(loaded.value.df_ip4, FALSE)
             dbip_ipv6 == convert_iprange_to_cidr(loaded.value.df_ip6, TRUE)
         IN  /\ Read("dbip", file)
             /\ IF loaded.error # "" THEN Abort(loaded.error)
                ELSE IF dbip_ipv4.error # "" THEN Abort(dbip_ipv4.error)
                ELSE IF dbip_ipv6.error # "" THEN Abort(dbip_ipv6.error)
                ELSE /\ aggregated_ipv4_df' = concat_df(aggregated_ipv4_df, dbip_ipv4.value)
                     /\ aggregated_ipv6_df' = concat_df(aggregated_ipv6_df, dbip_ipv6.value)
                     /\ Fits(aggregated_ipv4_df', aggregated_ipv6_df')
                     /\ pc' = "geolite2" /\ Done("dbip")
                     /\ UNCHANGED <<geo_idx, data_dir, export_dir, output_file,
                                    exit_code, error, raw_ipv4, raw_ipv6>>
    /\ UNCHANGED fn_vars

\* the GeoLite2 registry and block tables
LoadGeolite2 ==
    /\ pc = "geolite2"
    /\ \E dir \in GeoDirs(geolocation.name) :
         LET loaded == load_geolite2_csv(dir, geolocation)
         IN  /\ Read("geolite2", dir.countries)
             /\ IF loaded.error # "" THEN Abort(loaded.error)
                ELSE /\ aggregated_ipv4_df' =
                            concat_df(aggregated_ipv4_df, loaded.value.ipv4_df)
                     /\ aggregated_ipv6_df' =
                            concat_df(aggregated_ipv6_df, loaded.value.ipv6_df)
                     /\ Fits(aggregated_ipv4_df', aggregated_ipv6_df')
                     /\ pc' = "as_ipv4" /\ Done("geolite2")
                     /\ UNCHANGED <<geo_idx, data_dir, export_dir, output_file,
                                    exit_code, error, raw_ipv4, raw_ipv6>>
    /\ UNCHANGED fn_vars

\* LoadOptional4 reading the file without asking whether it is there
LoadOptional4_unguarded(source, next) ==
    /\ pc = source
    /\ \E file \in OptionalFiles4(geolocation.iso_code) :
         /\ last_read' = [source |-> source, present |-> file.present, rows |-> file.rows]
         /\ IF ~file.present THEN Abort("FileNotFoundError")
            ELSE /\ aggregated_ipv4_df' = concat_df(aggregated_ipv4_df, file.rows)
                 /\ Fits(aggregated_ipv4_df', aggregated_ipv6_df)
                 /\ pc' = next /\ Done(source)
                 /\ UNCHANGED <<geo_idx, aggregated_ipv6_df, data_dir, export_dir,
                                output_file, exit_code, error, raw_ipv4, raw_ipv6>>
    /\ UNCHANGED fn_vars

\* if Path(...ipv4_XX.csv).is_file(): read it and append its rows
LoadOptional4(source, next) ==
    /\ pc = source
    /\ \E file \in OptionalFiles4(geolocation.iso_code) :
         /\ last_read' = [source |-> source, present |-> file.present, rows |-> file.rows]
         /\ aggregated_ipv4_df' =
               IF file.present THEN concat_df(aggregated_ipv4_df, file.rows)
               ELSE aggregated_ipv4_df
         /\ Fits(aggregated_ipv4_df', aggregated_ipv6_df)
    /\ pc' = next /\ Done(source)
    /\ UNCHANGED <<geo_idx, aggregated_ipv6_df, data_dir, export_dir, output_file,
                   exit_code, error, raw_ipv4, raw_ipv6, fn_vars>>

\* if Path(...ipv6_XX.csv).is_file(): read it and append its rows; after the
\* last of them the ITO table follows for IR, and the next country otherwise
LoadOptional6(source, next) ==
    /\ pc = source
    /\ \E file \in OptionalFiles6(geolocation.iso_code) :
         /\ last_read' = [source |-> source, present |-> file.present, rows |-> file.rows]
         /\ aggregated_ipv6_df' =
               IF file.present THEN concat_df(aggregated_ipv6_df, file.rows)
               ELSE aggregated_ipv6_df
         /\ Fits(aggregated_ipv4_df, aggregated_ipv6_df')
    /\ Done(source)
    /\ IF next = "ito" /\ geolocation.iso_code # "IR"
       THEN NextCountry
       ELSE pc' = next /\ geo_idx' = geo_idx
    /\ UNCHANGED <<aggregated_ipv4_df, data_dir, export_dir, output_file,
                   exit_code, error, raw_ipv4, raw_ipv6, fn_vars>>

LoadAS4 == LoadOptional4("as_ipv4", "as_ipv6")
LoadAS6 == LoadOptional6("as_ipv6", "manual_ipv4")
LoadManual4 == LoadOptional4("manual_ipv4", "manual_ipv6")
LoadManual6 == LoadOptional6("manual_ipv6", "ito")

\* if geolocation["iso_code"] == "IR": the ITO table
LoadIto ==
    /\ pc = "ito"
    /\ \E xls \in ItoFiles :
         LET ito_df == read_ito_db(xls)
         IN  /\ Read("ito", xls)
             /\ IF ito_df.error # "" THEN Abort(ito_df.error)
                ELSE /\ aggregated_ipv4_df' = aggregated_ipv4_df \o ito_df.value
                     /\ Fits(aggregated_ipv4_df', aggregated_ipv6_df)
                     /\ Done("ito")
                     /\ NextCountry
                     /\ UNCHANGED <<aggregated_ipv6_df, data_dir, export_dir,
                                    output_file, exit_code, error, raw_ipv4, raw_ipv6>>
    /\ UNCHANGED fn_vars

\* CleanUp going on with the frame as it is when expand_df raises
CleanUp_swallow ==
    /\ pc = "cleanup"
    /\ raw_ipv4' = aggregated_ipv4_df /\ raw_ipv6' = aggregated_ipv6_df
    /\ aggregated_ipv6_df' = drop_duplicates(aggregated_ipv6_df)
    /\ \E expanded \in expand_df(drop_duplicates(aggregated_ipv4_df)) :
         /\ aggregated_ipv4_df' =
               IF expanded.error # "" THEN drop_duplicates(aggregated_ipv4_df)
               ELSE expanded.value
         /\ pc' = "save"
         /\ UNCHANGED <<exit_code, error>>
    /\ UNCHANGED <<geo_idx, data_dir, export_dir, output_file, last_read,
                   sources_done, fn_vars>>

\* drop_duplicates() on both frames, then expand_df on the IPv4 frame
CleanUp ==
    /\ pc = "cleanup"
    /\ raw_ipv4' = aggregated_ipv4_df /\ raw_ipv6' = aggregated_ipv6_df
    /\ aggregated_ipv6_df' = drop_duplicates(aggregated_ipv6_df)
    /\ \E expanded \in expand_df(drop_duplicates(aggregated_ipv4_df)) :
         IF expanded.error # ""
         THEN /\ pc' = "aborted" /\ error' = expanded.error /\ exit_code' = 1
              /\ aggregated_ipv4_df' = drop_duplicates(aggregated_ipv4_df)
         ELSE /\ aggregated_ipv4_df' = expanded.value
              /\ pc' = "save"
              /\ UNCHANGED <<exit_code, error>>
    /\ UNCHANGED <<geo_idx, data_dir, export_dir, output_file, last_read,
                   sources_done, fn_vars>>

\* Save with the two frames concatenated in the other order
Save_ipv6_first ==
    /\ pc = "save"
    /\ export_dir' = IF export_dir = "absent" THEN "created" ELSE export_dir
    /\ output_file' =
          [state |-> "written",
           rows |-> aggregated_ipv6_df \o aggregated_ipv4_df]
    /\ pc' = "done" /\ exit_code' = 0
    /\ UNCHANGED <<geo_idx, aggregated_ipv4_df, aggregated_ipv6_df, data_dir, error,
                   last_read, sources_done, raw_ipv4, raw_ipv6, fn_vars>>

\* pd.concat, os.makedirs(exist_ok=True), to_csv; main returns
Save ==
    /\ pc = "save"
    /\ export_dir' = IF export_dir = "absent" THEN "created" ELSE export_dir
    /\ output_file' =
          [state |-> "written",
           rows |-> aggregated_ipv4_df \o aggregated_ipv6_df]
    /\ pc' = "done" /\ exit_code' = 0
    /\ UNCHANGED <<geo_idx, aggregated_ipv4_df, aggregated_ipv6_df, data_dir, error,
                   last_read, sources_done, raw_ipv4, raw_ipv6, fn_vars>>

Next ==
    \/ EnterLoop \/ NoDataDir
    \/ LoadDbip \/ LoadGeolite2
    \/ LoadAS4 \/ LoadAS6 \/ LoadManual4 \/ LoadManual6
    \/ LoadIto
    \/ CleanUp \/ Save

Spec == Init /\ [][Next]_vars

----------------------------------------------------------------------------
(* Properties of main (Spec) *)

PerCountrySources ==
    {"dbip", "geolite2", "as_ipv4", "as_ipv6", "manual_ipv4", "manual_ipv6"}
AllSources ==
    {<<geolocations[i].iso_code, src>> : i \in 1..Len(geolocations),
                                         src \in PerCountrySources}
    \cup {<<"IR", "ito">>}

\* C6: the output file is written only after every source of every country
\* has been read and the IPv4 frame has been deduplicated and expanded without
\* error; a run that aborts on an error leaves the file as it was.
C6_OutputOnlyOnFullSuccess ==
    /\ output_file.state = "written"
       => /\ pc = "done" /\ error = "" /\ exit_code = 0
          /\ sources_done = AllSources
          /\ Ok(aggregated_ipv4_df) \in expand_df(drop_duplicates(raw_ipv4))
    /\ pc = "aborted"
       => /\ error # "" /\ exit_code # 0
          /\ output_file.state # "written"
          /\ export_dir # "created"

\* every source was read, and a network without "/" stopped the run in
\* expand_df, an older output file still in place
C6_Witness ==
    /\ pc = "aborted" /\ error = "IndexError"
    /\ sources_done = AllSources
    /\ Len(raw_ipv4) > 0
    /\ output_file = OldFile

\* C7 (as the specification states it): without the data directory main ends early with a nonzero
\* exit status, distinct from the 0 of a successful run, having read no input
\* and created neither the output directory nor the output file.
C7_EarlyExitNonzero ==
    /\ pc = "exited"
       => /\ exit_code # 0
          /\ last_read = NoRead /\ sources_done = {}
          /\ export_dir # "created" /\ output_file.state # "written"
    /\ pc = "done" => exit_code = 0

OptionalSteps == {"as_ipv4", "as_ipv6", "manual_ipv4", "manual_ipv6"}

\* a step over an optional file: what it may do
OptionalStepContributes ==
    pc \in OptionalSteps
    => /\ pc' \in (OptionalSteps \ {pc}) \cup {"ito", "dbip", "cleanup"}
       /\ error' = "" /\ exit_code' = exit_code
       /\ <<geolocations[geo_idx].iso_code, pc>> \in sources_done'
       /\ last_read'.source = pc
       /\ ~last_read'.present
          => /\ aggregated_ipv4_df' = aggregated_ipv4_df
             /\ aggregated_ipv6_df' = aggregated_ipv6_df
       /\ (last_read'.present /\ pc \in {"as_ipv4", "manual_ipv4"})
          => /\ aggregated_ipv4_df' = aggregated_ipv4_df \o last_read'.rows
             /\ aggregated_ipv6_df' = aggregated_ipv6_df
       /\ (last_read'.present /\ pc \in {"as_ipv6", "manual_ipv6"})
          => /\ aggregated_ipv6_df' = aggregated_ipv6_df \o last_read'.rows
             /\ aggregated_ipv4_df' = aggregated_ipv4_df

\* C8: an optional autonomous-system or manual CSV that is absent contributes
\* no record and raises no error, and the run goes on to the next source or
\* country; one that is present contributes all its rows, in order; a run that
\* ends without error has written the output.
C8_OptionalAbsenceIsEmpty ==
    /\ [][OptionalStepContributes]_vars
    /\ [](pc = "done" => output_file.state = "written")

\* the last optional file was absent, another was present with a row, and the
\* run wrote its output
C8_Witness ==
    /\ pc = "done" /\ output_file.state = "written"
    /\ last_read.source = "manual_ipv6" /\ ~last_read.present
    /\ \E i \in 1..Len(raw_ipv4) : raw_ipv4[i].Network = Net4(10, 0, 0, 5, 32)

\* the rows of the output after those of the IPv4 frame
OutputTail ==
    SubSeq(output_file.rows, Len(aggregated_ipv4_df) + 1, Len(output_file.rows))

FirstIndex(df, row) == CHOOSE i \in 1..Len(df) : df[i] = row /\ \A j \in 1..(i - 1) : df[j] # row

\* C9 (as the specification states it): the output is the expanded IPv4 frame followed by every
\* IPv6 record of the aggregator, duplicates included, in aggregation order.
C9_IPv6Untouched ==
    pc = "done" => output_file.rows = aggregated_ipv4_df \o raw_ipv6

\* C9 (amended): the output is the deduplicated and expanded IPv4 frame
\* followed by the IPv6 records of the aggregator, each unchanged and exactly
\* once, in the order of their first occurrence: exact duplicate rows are
\* dropped, and nothing else is done to an IPv6 record.
C9_ExpandedIPv4ThenDistinctIPv6 ==
    pc = "done"
    => /\ SubSeq(output_file.rows, 1, Len(aggregated_ipv4_df)) = aggregated_ipv4_df
       /\ Ok(aggregated_ipv4_df) \in expand_df(drop_duplicates(raw_ipv4))
       /\ {OutputTail[i] : i \in 1..Len(OutputTail)}
             = {raw_ipv6[i] : i \in 1..Len(raw_ipv6)}
       /\ \A i, j \in 1..Len(OutputTail) :
             i < j => /\ OutputTail[i] # OutputTail[j]
                      /\ FirstIndex(raw_ipv6, OutputTail[i])
                            < FirstIndex(raw_ipv6, OutputTail[j])

\* the aggregator produced an IPv6 record twice, and the output holds it once
C9_Witness ==
    /\ pc = "done"
    /\ \E i, j \in 1..Len(raw_ipv6) : i < j /\ raw_ipv6[i] = raw_ipv6[j]
    /\ Len(OutputTail) >= 1 /\ Len(OutputTail) < Len(raw_ipv6)
    /\ Len(aggregated_ipv4_df) >= 1

====
